---- MODULE Spec2Model ----
(***************************************************************************)
(* Task queue producer (src/api) and consumer (src/processor).             *)
(*                                                                         *)
(* Python values are records [type, s, items]: `type` is the Python type   *)
(* name, `s` the characters of a str (a sequence of atoms), `items` the    *)
(* key -> value mapping of a dict.  Atoms are TLA+ strings: one atom is    *)
(* one character of a text or one indivisible word of it.                  *)
(***************************************************************************)
EXTENDS Integers, Sequences, FiniteSets, TLC

VARIABLES
    processed_tasks,      \* processor/index.py:67, the idempotency registry
    event,                \* the event lambda_handler was called with
    pc,                   \* position of the consumer: idle, loop, returned, raised
    records,              \* lambda_handler local `records`
    idx,                  \* position of the for loop in `records`
    batch_item_failures,  \* lambda_handler local `batch_item_failures`
    task_data,            \* lambda_handler local `task_data` (unbound until assigned)
    processing_log,       \* task ids of the "Task processing simulation" log lines
    registry_at_start,    \* processed_tasks when the running invocation started
    offered,              \* queue medium: the entries it was given, in order
    medium,               \* queue medium: the entries waiting for delivery, in order
    acked,                \* queue medium: message ids acknowledged and removed
    dead,                 \* queue medium: message ids the medium stopped retrying
    receive_count,        \* queue medium: deliveries of each message id so far
    enable_api_key_check, \* api/index.py:86, ENABLE_API_KEY_CHECK
    queue,                \* the messages sqs_client.send_message has enqueued
    request,              \* the HTTP request handled last
    response,             \* the HTTP response to it
    created,              \* the records returned with 201 so far
    uuid_count,           \* uuid.uuid4() calls so far
    send_outcome,         \* what send_message did for the request handled last
    other_processed_tasks, \* processed_tasks of a second consumer process
    other_processing_log, \* the "Task processing simulation" log lines of that process
    calls                 \* the create_task invocations in progress, with their locals

consumer_vars == <<processed_tasks, event, pc, records, idx, batch_item_failures,
                   task_data, processing_log, registry_at_start>>

medium_vars == <<offered, medium, acked, dead, receive_count>>

api_vars == <<enable_api_key_check, queue, request, response, created, uuid_count,
             send_outcome>>

instance_vars == <<other_processed_tasks, other_processing_log>>

----------------------------------------------------------------------------
(* Python values *)

NoItems == [k \in {} |-> <<>>]

PyStr(chars) == [type |-> "str", s |-> chars, items |-> NoItems]

None == [type |-> "NoneType", s |-> <<>>, items |-> NoItems]

PyInt(digit) == [type |-> "int", s |-> <<digit>>, items |-> NoItems]

PyList == [type |-> "list", s |-> <<>>, items |-> NoItems]

PyDict(f) == [type |-> "dict", s |-> <<>>, items |-> f]

Unbound == [type |-> "unbound", s |-> <<>>, items |-> NoItems]

\* dict.get(key, default) on the items of a dict
DictGet(d, key, default) == IF key \in DOMAIN d.items THEN d.items[key] ELSE default

UNKNOWN == PyStr(<<"unknown">>)

----------------------------------------------------------------------------
(* JSON texts: json.loads on a sequence of atoms *)

QUOTE == "\""

Digits == {"7"}

SkipWs(s, i) ==
    IF \E j \in i..Len(s) : s[j] # " "
    THEN CHOOSE j \in i..Len(s) : s[j] # " " /\ \A k \in i..(j - 1) : s[k] = " "
    ELSE Len(s) + 1

\* the closing quote of the string literal that opens at position i, 0 if none
ClosingQuote(s, i) ==
    IF \E j \in (i + 1)..Len(s) : s[j] = QUOTE
    THEN CHOOSE j \in (i + 1)..Len(s) :
             s[j] = QUOTE /\ \A k \in (i + 1)..(j - 1) : s[k] # QUOTE
    ELSE 0

ParseError == [ok |-> FALSE, value |-> None, next |-> 0]

Parsed(v, n) == [ok |-> TRUE, value |-> v, next |-> n]

\* a scalar value (string, number, null) starting at position i
ParseScalar(s, i) ==
    IF i > Len(s) THEN ParseError
    ELSE IF s[i] = "null" THEN Parsed(None, i + 1)
    ELSE IF s[i] \in Digits THEN Parsed(PyInt(s[i]), i + 1)
    ELSE IF s[i] = QUOTE /\ ClosingQuote(s, i) # 0
         THEN Parsed(PyStr(SubSeq(s, i + 1, ClosingQuote(s, i) - 1)), ClosingQuote(s, i) + 1)
    ELSE ParseError

RECURSIVE ParseMembers(_, _, _)

\* after a member `key: v` whose value ended before position sep: "}" or "," follows
AfterValue(s, sep, more) ==
    IF sep > Len(s) THEN ParseError
    ELSE IF s[sep] = "}" THEN Parsed(PyDict(more), sep + 1)
    ELSE IF s[sep] = "," THEN ParseMembers(s, sep + 1, more)
    ELSE ParseError

\* the value v of the member with key `key`; a later key replaces an earlier one
MemberValue(s, key, v, acc) ==
    IF ~v.ok THEN ParseError
    ELSE AfterValue(s, SkipWs(s, v.next),
                    [x \in (DOMAIN acc) \cup {key} |-> IF x = key THEN v.value ELSE acc[x]])

\* after the key k of a member: ":" at position colon, then a scalar value
MemberKey(s, k, colon, acc) ==
    IF colon > Len(s) \/ s[colon] # ":" THEN ParseError
    ELSE MemberValue(s, k.value.s, ParseScalar(s, SkipWs(s, colon + 1)), acc)

MemberStart(s, k, acc) ==
    IF ~k.ok \/ k.value.type # "str" THEN ParseError
    ELSE MemberKey(s, k, SkipWs(s, k.next), acc)

\* the members of an object from position i, where a key is expected
ParseMembers(s, i, acc) == MemberStart(s, ParseScalar(s, SkipWs(s, i)), acc)

\* a JSON value starting at position i
ParseValue(s, i) ==
    IF i > Len(s) THEN ParseError
    ELSE IF s[i] = "[" THEN
        IF SkipWs(s, i + 1) <= Len(s) /\ s[SkipWs(s, i + 1)] = "]"
        THEN Parsed(PyList, SkipWs(s, i + 1) + 1) ELSE ParseError
    ELSE IF s[i] = "{" THEN
        IF SkipWs(s, i + 1) <= Len(s) /\ s[SkipWs(s, i + 1)] = "}"
        THEN Parsed(PyDict(NoItems), SkipWs(s, i + 1) + 1)
        ELSE ParseMembers(s, i + 1, NoItems)
    ELSE ParseScalar(s, i)

\* json.loads(text): ok = FALSE stands for json.JSONDecodeError
json_loads(s) ==
    LET r == ParseValue(s, SkipWs(s, 1))
    IN  IF r.ok /\ SkipWs(s, r.next) > Len(s) THEN r ELSE ParseError

----------------------------------------------------------------------------
(* Consumer: src/processor/index.py *)

MaxBatch == 3

MessageNames == <<"m1", "m2", "m3", "m4", "m5">>

\* the message identifier the queue assigned to the i-th entry it delivers
MessageId(i) == PyStr(<<MessageNames[i]>>)

T1 == PyStr(<<"t1">>)

T2 == PyStr(<<"t2">>)

\* {"task_id": "<id>", "title": "a"} as json.dumps writes it
TaskText(id) ==
    <<"{", QUOTE, "task_id", QUOTE, ":", " ", QUOTE>> \o id.s \o
    <<QUOTE, ",", " ", QUOTE, "title", QUOTE, ":", " ", QUOTE, "a", QUOTE, "}">>

\* invalid json{{{
MalformedText == <<"invalid", " ", "json", "{", "{", "{">>

\* {"title": "a"}
NoTaskIdText == <<"{", QUOTE, "title", QUOTE, ":", " ", QUOTE, "a", QUOTE, "}">>

\* texts that are JSON but no JSON object: [], 7, "s", null
NonObjectTexts == {<<"[", "]">>, <<"7">>, <<QUOTE, "s", QUOTE>>, <<"null">>}

WellFormedTexts == {TaskText(id) : id \in {T1, T2, UNKNOWN}}

\* the payloads of the entries the consumer is given
Bodies ==
    {PyStr(x) : x \in WellFormedTexts \cup NonObjectTexts \cup {MalformedText, NoTaskIdText}}
    \cup {None}

\* an SQS record: messageId and, unless the entry has none, body
RecordOf(mid, body) ==
    PyDict([k \in {<<"messageId">>, <<"body">>} |->
               IF k = <<"messageId">> THEN mid ELSE body])

RecordNoBody(mid) == PyDict([k \in {<<"messageId">>} |-> mid])

\* the i-th record of a batch carries a payload, or no body at all
RecordsAt(i) == {RecordOf(MessageId(i), b) : b \in Bodies} \cup {RecordNoBody(MessageId(i))}

RECURSIVE BatchesOfLen(_)
\* the batches of n records
BatchesOfLen(n) ==
    IF n = 0 THEN {<<>>}
    ELSE {Append(b, r) : b \in BatchesOfLen(n - 1), r \in RecordsAt(n)}

\* batches: at most MaxBatch records, with pairwise distinct message ids
Batches == UNION {BatchesOfLen(n) : n \in 0..MaxBatch}

\* events: {"Records": batch} and the event without Records
Events ==
    {PyDict([k \in {<<"Records">>} |-> b]) : b \in Batches} \cup {PyDict(NoItems)}

\* process_task that reads .get("task_id") with no default: the key is None
process_task_none_default(td, P, L) ==
    LET task_id == DictGet(td, <<"task_id">>, None)
    IN  IF task_id \in P
        THEN [exc |-> "", registry |-> P, log |-> L]
        ELSE [exc |-> "", registry |-> P \cup {task_id}, log |-> Append(L, task_id)]

\* process_task that forgets a task it is given again
process_task_forget_duplicate(td, P, L) ==
    LET task_id == DictGet(td, <<"task_id">>, UNKNOWN)
    IN  IF task_id \in P
        THEN [exc |-> "", registry |-> P \ {task_id}, log |-> L]
        ELSE [exc |-> "", registry |-> P \cup {task_id}, log |-> Append(L, task_id)]

\* process_task without the idempotency check of lines 96-99
process_task_no_check(td, P, L) ==
    LET task_id == DictGet(td, <<"task_id">>, UNKNOWN)
    IN  [exc |-> "", registry |-> P \cup {task_id}, log |-> Append(L, task_id)]

\* process_task that treats an already processed task as an error
process_task_dup_raises(td, P, L) ==
    LET task_id == DictGet(td, <<"task_id">>, UNKNOWN)
    IN  IF task_id \in P
        THEN [exc |-> "ValueError", registry |-> P, log |-> L]
        ELSE [exc |-> "", registry |-> P \cup {task_id}, log |-> Append(L, task_id)]

\* process_task that reads task_data["task_id"] where line 83 reads .get("task_id", "unknown")
process_task_subscript(td, P, L) ==
    IF <<"task_id">> \notin DOMAIN td.items
    THEN [exc |-> "KeyError", registry |-> P, log |-> L]
    ELSE IF td.items[<<"task_id">>] \in P
    THEN [exc |-> "", registry |-> P, log |-> L]
    ELSE [exc |-> "", registry |-> P \cup {td.items[<<"task_id">>]},
          log |-> Append(L, td.items[<<"task_id">>])]

\* process_task without line 120: the task is processed and never registered
process_task_no_register(td, P, L) ==
    LET task_id == DictGet(td, <<"task_id">>, UNKNOWN)
    IN  IF task_id \in P
        THEN [exc |-> "", registry |-> P, log |-> L]
        ELSE [exc |-> "", registry |-> P, log |-> Append(L, task_id)]

\* process_task(task_data) from registry P and log L: the exception it raises ("" for
\* none), and the registry and the log after it
process_task(td, P, L) ==
    LET task_id == DictGet(td, <<"task_id">>, UNKNOWN)
    IN  IF task_id \in P
        THEN [exc |-> "", registry |-> P, log |-> L]
        ELSE [exc |-> "", registry |-> P \cup {task_id}, log |-> Append(L, task_id)]

\* a try block that reads record.get("body", ""): an entry without body fails to parse
TryBlock_empty_default(r, td, P, L) ==
    LET message_body == DictGet(r, <<"body">>, PyStr(<<>>))
        loaded == json_loads(message_body.s)
        done == process_task(loaded.value, P, L)
    IN  IF message_body.type # "str"
        THEN [exc |-> "TypeError", task_data |-> td, registry |-> P, log |-> L]
        ELSE IF ~loaded.ok
        THEN [exc |-> "JSONDecodeError", task_data |-> td, registry |-> P, log |-> L]
        ELSE IF loaded.value.type # "dict"
        THEN [exc |-> "AttributeError", task_data |-> loaded.value,
              registry |-> P, log |-> L]
        ELSE [exc |-> done.exc, task_data |-> loaded.value,
              registry |-> done.registry, log |-> done.log]

\* the try block of the loop body for record r: the exception it ends with ("" for
\* none), and task_data, the registry and the log after it
TryBlock(r, td, P, L) ==
    LET message_body == DictGet(r, <<"body">>, PyStr(<<"{", "}">>))
        loaded == json_loads(message_body.s)
        done == process_task(loaded.value, P, L)
    IN  IF message_body.type # "str"
        THEN [exc |-> "TypeError", task_data |-> td, registry |-> P, log |-> L]
        ELSE IF ~loaded.ok
        THEN [exc |-> "JSONDecodeError", task_data |-> td, registry |-> P, log |-> L]
        ELSE IF loaded.value.type # "dict"
        THEN [exc |-> "AttributeError", task_data |-> loaded.value,
              registry |-> P, log |-> L]
        ELSE [exc |-> done.exc, task_data |-> loaded.value,
              registry |-> done.registry, log |-> done.log]

\* handlers that log and re-raise
HandlerRaises_reraise(exc, td) == exc # ""

\* the `except Exception` handler evaluates task_data.get(...) when task_data is
\* bound: with a task_data that is no dict the handler itself raises
HandlerRaises(exc, td) ==
    /\ exc \notin {"", "JSONDecodeError", "KeyError"}
    /\ td.type \notin {"unbound", "dict"}

\* a loop body that reports a failed record under the task id at hand
LoopBody_failures_by_task_id(r, td, P, L, failures) ==
    LET t == TryBlock(r, td, P, L)
    IN  [raised |-> HandlerRaises(t.exc, t.task_data),
         failures |-> IF t.exc = "" \/ HandlerRaises(t.exc, t.task_data)
                      THEN failures
                      ELSE Append(failures, DictGet(t.task_data, <<"task_id">>, UNKNOWN)),
         task_data |-> t.task_data,
         registry |-> t.registry,
         log |-> t.log]

\* a loop body whose handlers forget the registry when a record fails
LoopBody_clear_on_failure(r, td, P, L, failures) ==
    LET message_id == DictGet(r, <<"messageId">>, UNKNOWN)
        t == TryBlock(r, td, P, L)
    IN  [raised |-> HandlerRaises(t.exc, t.task_data),
         failures |-> IF t.exc = "" \/ HandlerRaises(t.exc, t.task_data)
                      THEN failures
                      ELSE Append(failures, message_id),
         task_data |-> t.task_data,
         registry |-> IF t.exc = "" THEN t.registry ELSE {},
         log |-> t.log]

\* one iteration of the for loop: the outcome for record r
LoopBody(r, td, P, L, failures) ==
    LET message_id == DictGet(r, <<"messageId">>, UNKNOWN)
        t == TryBlock(r, td, P, L)
    IN  [raised |-> HandlerRaises(t.exc, t.task_data),
         failures |-> IF t.exc = "" \/ HandlerRaises(t.exc, t.task_data)
                      THEN failures
                      ELSE Append(failures, message_id),
         task_data |-> t.task_data,
         registry |-> t.registry,
         log |-> t.log]

\* lambda_handler with the registry created inside the handler, not at module level
Invoke_fresh_registry ==
    /\ pc = "idle"
    /\ event' \in Events
    /\ records' = DictGet(event', <<"Records">>, <<>>)
    /\ batch_item_failures' = <<>>
    /\ idx' = 1
    /\ task_data' = Unbound
    /\ registry_at_start' = processed_tasks
    /\ pc' = "loop"
    /\ processed_tasks' = {}
    /\ UNCHANGED <<processing_log, medium_vars, api_vars, instance_vars, calls>>

\* lambda_handler is called with an event
Invoke ==
    /\ pc = "idle"
    /\ event' \in Events
    /\ records' = DictGet(event', <<"Records">>, <<>>)
    /\ batch_item_failures' = <<>>
    /\ idx' = 1
    /\ task_data' = Unbound
    /\ registry_at_start' = processed_tasks
    /\ pc' = "loop"
    /\ UNCHANGED <<processed_tasks, processing_log, medium_vars, api_vars, instance_vars, calls>>

\* a loop that walks the records from the last to the first
ProcessRecord_reverse ==
    /\ pc = "loop"
    /\ idx <= Len(records)
    /\ LET out == LoopBody(records[Len(records) + 1 - idx], task_data, processed_tasks,
                           processing_log, batch_item_failures)
       IN  /\ processed_tasks' = out.registry
           /\ processing_log' = out.log
           /\ task_data' = out.task_data
           /\ batch_item_failures' = out.failures
           /\ pc' = IF out.raised THEN "raised" ELSE "loop"
           /\ idx' = IF out.raised THEN idx ELSE idx + 1
    /\ UNCHANGED <<event, records, registry_at_start, medium_vars, api_vars, instance_vars, calls>>

\* one iteration of `for record in records`
ProcessRecord ==
    /\ pc = "loop"
    /\ idx <= Len(records)
    /\ LET out == LoopBody(records[idx], task_data, processed_tasks,
                           processing_log, batch_item_failures)
       IN  /\ processed_tasks' = out.registry
           /\ processing_log' = out.log
           /\ task_data' = out.task_data
           /\ batch_item_failures' = out.failures
           /\ pc' = IF out.raised THEN "raised" ELSE "loop"
           /\ idx' = IF out.raised THEN idx ELSE idx + 1
    /\ UNCHANGED <<event, records, registry_at_start, medium_vars, api_vars, instance_vars, calls>>

\* the loop is over: lambda_handler returns {"batchItemFailures": batch_item_failures}
Return ==
    /\ pc = "loop"
    /\ idx > Len(records)
    /\ pc' = "returned"
    /\ UNCHANGED <<processed_tasks, event, records, idx, batch_item_failures,
                   task_data, processing_log, registry_at_start, medium_vars, api_vars, instance_vars, calls>>

\* the invocation is over (it returned or raised): its frame is discarded and the
\* process waits for the next event; processed_tasks is module state and stays
Release ==
    /\ pc \in {"returned", "raised"}
    /\ pc' = "idle"
    /\ event' = PyDict(NoItems)
    /\ records' = <<>>
    /\ idx' = 1
    /\ batch_item_failures' = <<>>
    /\ task_data' = Unbound
    /\ registry_at_start' = processed_tasks
    /\ UNCHANGED <<processed_tasks, processing_log, medium_vars, api_vars, instance_vars, calls>>

----------------------------------------------------------------------------
(* The queue medium around the consumer: it delivers the waiting entries as one
   batch, and after the invocation acknowledges the entries the returned
   batchItemFailures does not name and keeps the named ones for redelivery.  An
   invocation that raises returns no result: the medium acknowledges nothing. *)

MaxReceive == 2

MessageIdsOf(batch) == {batch[i].items[<<"messageId">>] : i \in DOMAIN batch}

\* the medium delivers the waiting entries: lambda_handler is called with them
Deliver ==
    /\ pc = "idle"
    /\ medium # <<>>
    /\ event' = PyDict([k \in {<<"Records">>} |-> medium])
    /\ records' = DictGet(event', <<"Records">>, <<>>)
    /\ batch_item_failures' = <<>>
    /\ idx' = 1
    /\ task_data' = Unbound
    /\ registry_at_start' = processed_tasks
    /\ pc' = "loop"
    /\ receive_count' = [m \in DOMAIN receive_count |->
                            IF m \in MessageIdsOf(medium)
                            THEN receive_count[m] + 1 ELSE receive_count[m]]
    /\ UNCHANGED <<processed_tasks, processing_log, offered, medium, acked, dead,
                   api_vars, instance_vars, calls>>

\* the message ids the medium must retry after the invocation
ToRetry ==
    IF pc = "returned"
    THEN {batch_item_failures[i] : i \in DOMAIN batch_item_failures}
    ELSE MessageIdsOf(records)

KeepEntry(r) ==
    /\ r.items[<<"messageId">>] \in ToRetry
    /\ receive_count[r.items[<<"messageId">>]] < MaxReceive

\* the invocation is over: the medium acknowledges, keeps or gives up each entry
Settle ==
    /\ pc \in {"returned", "raised"}
    /\ medium # <<>>
    /\ medium' = SelectSeq(medium, KeepEntry)
    /\ acked' = acked \cup (MessageIdsOf(medium) \ ToRetry)
    /\ dead' = dead \cup {m \in MessageIdsOf(medium) \cap ToRetry :
                             receive_count[m] >= MaxReceive}
    /\ pc' = "idle"
    /\ event' = PyDict(NoItems)
    /\ records' = <<>>
    /\ idx' = 1
    /\ batch_item_failures' = <<>>
    /\ task_data' = Unbound
    /\ registry_at_start' = processed_tasks
    /\ UNCHANGED <<processed_tasks, processing_log, offered, receive_count, api_vars, instance_vars, calls>>

----------------------------------------------------------------------------
(* A second consumer process: the same lambda_handler over its own module state *)

RECURSIVE RunBatch(_, _, _, _, _, _)
\* the loop after the iteration for the i-th record gave out
RunRest(recs, i, out) ==
    IF out.raised
    THEN [raised |-> TRUE, registry |-> out.registry, log |-> out.log,
          failures |-> out.failures]
    ELSE RunBatch(recs, i + 1, out.task_data, out.registry, out.log, out.failures)

\* `for record in records` from the i-th record on
RunBatch(recs, i, td, P, L, failures) ==
    IF i > Len(recs)
    THEN [raised |-> FALSE, registry |-> P, log |-> L, failures |-> failures]
    ELSE RunRest(recs, i, LoopBody(recs[i], td, P, L, failures))

\* lambda_handler(ev, context) as one step, in a process with registry P and log L:
\* whether it raised, the batchItemFailures it built, the registry and the log after
lambda_handler(ev, P, L) ==
    RunBatch(DictGet(ev, <<"Records">>, <<>>), 1, Unbound, P, L, <<>>)

\* two processes that share one registry
DeliverOther_shared_registry ==
    /\ offered # <<>>
    /\ LET out == lambda_handler(PyDict([k \in {<<"Records">>} |-> offered]),
                                 processed_tasks \cup other_processed_tasks,
                                 other_processing_log)
       IN  /\ other_processed_tasks' = out.registry
           /\ other_processing_log' = out.log
    /\ UNCHANGED <<consumer_vars, medium_vars, api_vars, calls>>

\* the entries are delivered, once more, to the second process
DeliverOther ==
    /\ offered # <<>>
    /\ LET out == lambda_handler(PyDict([k \in {<<"Records">>} |-> offered]),
                                 other_processed_tasks, other_processing_log)
       IN  /\ other_processed_tasks' = out.registry
           /\ other_processing_log' = out.log
    /\ UNCHANGED <<consumer_vars, medium_vars, api_vars, calls>>

----------------------------------------------------------------------------
(* Producer: src/api/models.py *)

MIN_LENGTH == 1

TITLE_MAX_LENGTH == 200

DESCRIPTION_MAX_LENGTH == 2000

Whitespace == {" "}

\* str.strip()
Strip(s) ==
    IF \A i \in DOMAIN s : s[i] \in Whitespace THEN <<>>
    ELSE SubSeq(s,
                CHOOSE i \in DOMAIN s :
                    s[i] \notin Whitespace /\ \A k \in 1..(i - 1) : s[k] \in Whitespace,
                CHOOSE i \in DOMAIN s :
                    s[i] \notin Whitespace /\ \A k \in (i + 1)..Len(s) : s[k] \in Whitespace)

\* a validator that returns the text as it came
sanitize_string_no_strip(v) == v

\* TaskCreate.sanitize_string
sanitize_string(v) == IF v # <<>> THEN Strip(v) ELSE v

\* v.replace("Z", "+00:00")
ReplaceZ(s) == [i \in DOMAIN s |-> IF s[i] = "Z" THEN "+00:00" ELSE s[i]]

DateTimes == {"2026-01-15T18:00:00"}

\* datetime.fromisoformat(text) raises no ValueError: a date-time, bare or with an offset
fromisoformat_ok(s) ==
    \/ Len(s) = 1 /\ s[1] \in DateTimes
    \/ Len(s) = 2 /\ s[1] \in DateTimes /\ s[2] = "+00:00"

\* TaskCreate.validate_due_date raises no ValueError
validate_due_date_ok(v) ==
    \/ v.type = "NoneType"
    \/ v.type = "str" /\ fromisoformat_ok(ReplaceZ(v.s))

Priorities == {PyStr(<<"low">>), PyStr(<<"medium">>), PyStr(<<"high">>)}

\* a required str field with no upper length bound
StrFieldOk_no_max_length(body, key, max_length) ==
    /\ key \in DOMAIN body.items
    /\ body.items[key].type = "str"
    /\ Len(body.items[key].s) >= MIN_LENGTH

\* a required str field within its length bounds
StrFieldOk(body, key, max_length) ==
    /\ key \in DOMAIN body.items
    /\ body.items[key].type = "str"
    /\ Len(body.items[key].s) >= MIN_LENGTH
    /\ Len(body.items[key].s) <= max_length

\* TaskCreate with priority declared as str
TaskCreate_ok_any_priority(body) ==
    /\ body.type = "dict"
    /\ StrFieldOk(body, <<"title">>, TITLE_MAX_LENGTH)
    /\ StrFieldOk(body, <<"description">>, DESCRIPTION_MAX_LENGTH)
    /\ <<"priority">> \in DOMAIN body.items
    /\ body.items[<<"priority">>].type = "str"
    /\ validate_due_date_ok(DictGet(body, <<"due_date">>, None))

\* TaskCreate(**body) raises no validation error
TaskCreate_ok(body) ==
    /\ body.type = "dict"
    /\ StrFieldOk(body, <<"title">>, TITLE_MAX_LENGTH)
    /\ StrFieldOk(body, <<"description">>, DESCRIPTION_MAX_LENGTH)
    /\ <<"priority">> \in DOMAIN body.items
    /\ body.items[<<"priority">>] \in Priorities
    /\ validate_due_date_ok(DictGet(body, <<"due_date">>, None))

TaskFields == {<<"title">>, <<"description">>, <<"priority">>, <<"due_date">>}

\* the validated TaskCreate: the field validators run after the length checks
TaskCreate(body) ==
    PyDict([k \in TaskFields |->
        IF k \in {<<"title">>, <<"description">>}
        THEN PyStr(sanitize_string(body.items[k].s))
        ELSE DictGet(body, k, None)])

----------------------------------------------------------------------------
(* Producer: src/api/index.py *)

MaxTasks == 2

UuidNames == <<"u1", "u2", "u3", "u4">>

\* an identifier computed once and used for every task
uuid4_constant(n) == PyStr(<<UuidNames[1]>>)

\* str(uuid.uuid4()), the n-th identifier generated: identifiers do not repeat
uuid4(n) == PyStr(<<UuidNames[n]>>)

\* datetime.now(timezone.utc).isoformat()
Now == PyStr(<<"2026-01-10T12:00:00", "+00:00">>)

VALID_API_KEY == PyStr(<<"test-api-key-12345">>)

ExemptPaths == {"/health", "/docs", "/redoc", "/openapi.json"}

RECURSIVE DumpMembers(_, _, _)
\* the members of d from the i-th key on, as json.dumps writes them
DumpMembers(d, keys, i) ==
    IF i > Len(keys) THEN <<>>
    ELSE (IF i > 1 THEN <<",", " ">> ELSE <<>>)
         \o <<QUOTE>> \o keys[i] \o <<QUOTE, ":", " ">>
         \o (IF d.items[keys[i]].type = "NoneType"
             THEN <<"null">>
             ELSE <<QUOTE>> \o d.items[keys[i]].s \o <<QUOTE>>)
         \o DumpMembers(d, keys, i + 1)

\* json.dumps(d) for a dict d of strings and None with its keys in insertion order
json_dumps(d, keys) == <<"{">> \o DumpMembers(d, keys, 1) \o <<"}">>

Response(status, content) == [status_code |-> status, content |-> content]

ErrorContent(error, message) ==
    PyDict([k \in {<<"error">>, <<"message">>} |->
               IF k = <<"error">> THEN PyStr(error) ELSE PyStr(message)])

\* a middleware with no exempt paths
validate_api_key_no_exempt(req, enabled) ==
    IF ~enabled THEN "pass"
    ELSE IF req.api_key.type = "NoneType" \/ req.api_key.s = <<>> THEN "missing"
    ELSE IF req.api_key # VALID_API_KEY THEN "invalid"
    ELSE "pass"

\* a middleware that checks only that a key is there
validate_api_key_any_key(req, enabled) ==
    IF req.path \in ExemptPaths THEN "pass"
    ELSE IF ~enabled THEN "pass"
    ELSE IF req.api_key.type = "NoneType" \/ req.api_key.s = <<>> THEN "missing"
    ELSE "pass"

\* validate_api_key: "pass" when the request goes on to call_next
validate_api_key(req, enabled) ==
    IF req.path \in ExemptPaths THEN "pass"
    ELSE IF ~enabled THEN "pass"
    ELSE IF req.api_key.type = "NoneType" \/ req.api_key.s = <<>> THEN "missing"
    ELSE IF req.api_key # VALID_API_KEY THEN "invalid"
    ELSE "pass"

MessageKeys == <<<<"task_id">>, <<"title">>, <<"description">>, <<"priority">>,
                 <<"due_date">>, <<"created_at">>, <<"status">>>>

\* the dict of lines 204-212, and the TaskResponse of lines 233-241
TaskRecord(task, task_id, created_at) ==
    PyDict([k \in {MessageKeys[i] : i \in DOMAIN MessageKeys} |->
        IF k = <<"task_id">> THEN task_id
        ELSE IF k = <<"created_at">> THEN created_at
        ELSE IF k = <<"status">> THEN PyStr(<<"queued">>)
        ELSE task.items[k]])

\* send_message with the title as the deduplication key
SendMessageCall_title_dedup(task, task_id, created_at) ==
    [MessageBody |-> json_dumps(TaskRecord(task, task_id, created_at), MessageKeys),
     MessageGroupId |-> PyStr(<<"tasks">>),
     MessageDeduplicationId |-> task.items[<<"title">>]]

\* the send_message call of lines 216-221
SendMessageCall(task, task_id, created_at) ==
    [MessageBody |-> json_dumps(TaskRecord(task, task_id, created_at), MessageKeys),
     MessageGroupId |-> PyStr(<<"tasks">>),
     MessageDeduplicationId |-> task_id]

\* what send_message does: it enqueues, or raises a ClientError or another error
SendOutcomes ==
    {[kind |-> "ok", code |-> <<>>, message |-> <<>>],
     [kind |-> "ClientError", code |-> <<"AccessDenied">>,
      message |-> <<"Access to the resource is denied">>],
     [kind |-> "ClientError", code |-> <<"Throttling">>, message |-> <<"Rate exceeded">>],
     [kind |-> "Exception", code |-> <<>>, message |-> <<"timeout">>]}

\* create_task logging an error of send_message and answering as if it were queued
create_task_swallows_error(task, task_id, created_at, outcome) ==
    [response |-> Response(201, TaskRecord(task, task_id, created_at)),
     sent |-> IF outcome.kind = "ok"
              THEN <<SendMessageCall(task, task_id, created_at)>>
              ELSE <<>>,
     uuids |-> 1]

\* create_task with the response built by a step that fails after send_message
create_task_error_after_send(task, task_id, created_at, outcome) ==
    [response |-> Response(500, ErrorContent(<<"HTTP Error">>,
                 <<"An unexpected error occurred while creating the task">>)),
     sent |-> IF outcome.kind = "ok"
              THEN <<SendMessageCall(task, task_id, created_at)>>
              ELSE <<>>,
     uuids |-> 1]

\* create_task(task): the response, the messages enqueued, the uuids generated
create_task(task, task_id, created_at, outcome) ==
    IF outcome.kind = "ok"
    THEN [response |-> Response(201, TaskRecord(task, task_id, created_at)),
          sent |-> <<SendMessageCall(task, task_id, created_at)>>,
          uuids |-> 1]
    ELSE IF outcome.kind = "ClientError"
    THEN [response |-> Response(500, ErrorContent(<<"HTTP Error">>,
                                 <<"Failed to queue task: ">> \o outcome.message)),
          sent |-> <<>>,
          uuids |-> 1]
    ELSE [response |-> Response(500, ErrorContent(<<"HTTP Error">>,
                 <<"An unexpected error occurred while creating the task">>)),
          sent |-> <<>>,
          uuids |-> 1]

\* health_check
health_check ==
    Response(200, PyDict([k \in {<<"status">>, <<"timestamp">>} |->
                             IF k = <<"status">> THEN PyStr(<<"healthy">>) ELSE Now]))

\* the documentation pages FastAPI serves: docs_url, redoc_url, openapi_url
DocPaths == {"/docs", "/redoc", "/openapi.json"}

\* the application with the request body validated, and the endpoint entered,
\* before the API key is looked at
App_validate_first(req, enabled, n, outcome) ==
    IF req.path = "/health"
    THEN [response |-> health_check, sent |-> <<>>, uuids |-> 0]
    ELSE IF req.path \in DocPaths
    THEN [response |-> Response(200, PyStr(<<req.path>>)), sent |-> <<>>, uuids |-> 0]
    ELSE IF ~TaskCreate_ok(req.body)
    THEN [response |-> Response(400, ErrorContent(<<"Validation Error">>,
                                                  <<"Invalid request data">>)),
          sent |-> <<>>, uuids |-> 0]
    ELSE IF validate_api_key(req, enabled) = "missing"
    THEN [response |-> Response(403, ErrorContent(<<"Forbidden">>,
                           <<"Missing API Key. Include x-api-key header.">>)),
          sent |-> <<>>, uuids |-> 1]
    ELSE IF validate_api_key(req, enabled) = "invalid"
    THEN [response |-> Response(403, ErrorContent(<<"Forbidden">>, <<"Invalid API Key.">>)),
          sent |-> <<>>, uuids |-> 1]
    ELSE create_task(TaskCreate(req.body), uuid4(n + 1), Now, outcome)

\* the application: middleware, routing, request validation, endpoint
App(req, enabled, n, outcome) ==
    IF validate_api_key(req, enabled) = "missing"
    THEN [response |-> Response(403, ErrorContent(<<"Forbidden">>,
                           <<"Missing API Key. Include x-api-key header.">>)),
          sent |-> <<>>, uuids |-> 0]
    ELSE IF validate_api_key(req, enabled) = "invalid"
    THEN [response |-> Response(403, ErrorContent(<<"Forbidden">>, <<"Invalid API Key.">>)),
          sent |-> <<>>, uuids |-> 0]
    ELSE IF req.path = "/health"
    THEN [response |-> health_check, sent |-> <<>>, uuids |-> 0]
    ELSE IF req.path \in DocPaths
    THEN [response |-> Response(200, PyStr(<<req.path>>)), sent |-> <<>>, uuids |-> 0]
    ELSE IF ~TaskCreate_ok(req.body)
    THEN [response |-> Response(400, ErrorContent(<<"Validation Error">>,
                                                  <<"Invalid request data">>)),
          sent |-> <<>>, uuids |-> 0]
    ELSE create_task(TaskCreate(req.body), uuid4(n + 1), Now, outcome)

\* the queue medium enqueues a message unless it holds one with the same
\* deduplication key
Enqueue(q, sent) ==
    IF sent = <<>> THEN q
    ELSE IF \E i \in DOMAIN q :
                q[i].MessageDeduplicationId = sent[1].MessageDeduplicationId
    THEN q
    ELSE Append(q, sent[1])

\* request bodies: one valid body, and that body with one field replaced or left out
BaseBody ==
    [k \in TaskFields |->
        IF k = <<"title">> THEN PyStr(<<"a">>)
        ELSE IF k = <<"description">> THEN PyStr(<<"d">>)
        ELSE IF k = <<"priority">> THEN PyStr(<<"high">>)
        ELSE PyStr(<<"2026-01-15T18:00:00", "Z">>)]

LongText == [i \in 1..(TITLE_MAX_LENGTH + 1) |-> "x"]

LongDescription == [i \in 1..(DESCRIPTION_MAX_LENGTH + 1) |-> "x"]

FieldValues(k) ==
    IF k = <<"title">>
    THEN {PyStr(<<>>), PyStr(<<" ">>), PyStr(<<" ", "a", " ">>), PyStr(LongText)}
    ELSE IF k = <<"description">>
    THEN {PyStr(<<>>), PyStr(<<" ">>), PyStr(<<"d", " ">>), PyStr(LongDescription)}
    ELSE IF k = <<"priority">>
    THEN {PyStr(<<"low">>), PyStr(<<"medium">>), PyStr(<<"urgent">>)}
    ELSE {None, PyStr(<<"2026-01-15T18:00:00", "+00:00">>), PyStr(<<"tomorrow">>)}

InvalidJson == [type |-> "invalid_json", s |-> <<>>, items |-> NoItems]

RequestBodies ==
    {PyDict(BaseBody), InvalidJson}
    \cup UNION {{PyDict([k \in TaskFields |-> IF k = f THEN v ELSE BaseBody[k]]) :
                     v \in FieldValues(f)} : f \in TaskFields}
    \cup {PyDict([k \in TaskFields \ {f} |-> BaseBody[k]]) : f \in TaskFields}

ApiKeys == {None, PyStr(<<>>), VALID_API_KEY, PyStr(<<"wrong-key">>)}

Requests ==
    {[path |-> "/tasks", api_key |-> a, body |-> b] : a \in ApiKeys, b \in RequestBodies}
    \cup {[path |-> p, api_key |-> a, body |-> None] :
              p \in {"/health"} \cup DocPaths, a \in ApiKeys}

NoRequest == [path |-> "", api_key |-> None, body |-> None]

NoResponse == Response(0, PyDict(NoItems))

\* send_message was not called
NoSend == [kind |-> "none", code |-> <<>>, message |-> <<>>]

----------------------------------------------------------------------------
(* create_task invocations running side by side: each has its own locals (task,
   task_id, message_body, response); they share the uuid generator and the queue *)

MaxCalls == 2

CallIds == 1..MaxCalls

\* the locals of an invocation that has not begun
NoCall == [pc |-> "idle", task |-> None, task_id |-> None, attempts |-> 0,
           response |-> NoResponse]

\* the valid submissions the invocations are given
Submissions ==
    {PyDict(BaseBody),
     PyDict([BaseBody EXCEPT ![<<"title">>] = PyStr(<<" ", "a", " ">>)]),
     PyDict([BaseBody EXCEPT ![<<"due_date">>] = None])}

MaxSendAttempts == 2

\* invocation k begins: the validated task, a new task_id, the message body
BeginCall(k) ==
    /\ calls[k].pc = "idle"
    /\ \E body \in Submissions :
           calls' = [calls EXCEPT ![k] = [pc |-> "built",
                                          task |-> TaskCreate(body),
                                          task_id |-> uuid4(uuid_count + 1),
                                          attempts |-> 0,
                                          response |-> NoResponse]]
    /\ uuid_count' = uuid_count + 1
    /\ UNCHANGED <<enable_api_key_check, queue, request, response, created, send_outcome,
                   consumer_vars, medium_vars, instance_vars>>

\* the call whose locals were written last
BuiltLast == CHOOSE j \in CallIds : calls[j].task_id = uuid4(uuid_count)

\* send_message with a message body kept in one module-level dict
SendCall_shared_body(k) ==
    /\ calls[k].pc = "built"
    /\ \E outcome \in SendOutcomes :
           /\ queue' = Enqueue(queue, create_task(calls[BuiltLast].task,
                                                  calls[BuiltLast].task_id, Now, outcome).sent)
           /\ calls' = [calls EXCEPT
                           ![k].pc = IF outcome.kind = "ok" THEN "sending" ELSE "failed",
                           ![k].attempts = 1,
                           ![k].response = create_task(calls[BuiltLast].task,
                                               calls[BuiltLast].task_id, Now, outcome).response]
    /\ UNCHANGED <<enable_api_key_check, request, response, created, uuid_count,
                   send_outcome, consumer_vars, medium_vars, instance_vars>>

\* invocation k calls send_message: the medium takes the message, or the call raises
SendCall(k) ==
    /\ calls[k].pc = "built"
    /\ \E outcome \in SendOutcomes :
           /\ queue' = Enqueue(queue, create_task(calls[k].task, calls[k].task_id,
                                                  Now, outcome).sent)
           /\ calls' = [calls EXCEPT
                           ![k].pc = IF outcome.kind = "ok" THEN "sending" ELSE "failed",
                           ![k].attempts = 1,
                           ![k].response = create_task(calls[k].task, calls[k].task_id,
                                                       Now, outcome).response]
    /\ UNCHANGED <<enable_api_key_check, request, response, created, uuid_count,
                   send_outcome, consumer_vars, medium_vars, instance_vars>>

\* a retry that makes up a new deduplication key for every attempt
TransportRetry_fresh_dedup_id(k) ==
    /\ calls[k].pc = "sending"
    /\ calls[k].attempts < MaxSendAttempts
    /\ queue' = Enqueue(queue,
                   <<[SendMessageCall(calls[k].task, calls[k].task_id, Now)
                        EXCEPT !.MessageDeduplicationId =
                                   PyStr(calls[k].task_id.s \o <<"-retry">>)]>>)
    /\ calls' = [calls EXCEPT ![k].attempts = calls[k].attempts + 1]
    /\ UNCHANGED <<enable_api_key_check, request, response, created, uuid_count,
                   send_outcome, consumer_vars, medium_vars, instance_vars>>

\* the answer of the medium did not arrive: the transport sends the same
\* send_message request of invocation k once more
TransportRetry(k) ==
    /\ calls[k].pc = "sending"
    /\ calls[k].attempts < MaxSendAttempts
    /\ queue' = Enqueue(queue, <<SendMessageCall(calls[k].task, calls[k].task_id, Now)>>)
    /\ calls' = [calls EXCEPT ![k].attempts = calls[k].attempts + 1]
    /\ UNCHANGED <<enable_api_key_check, request, response, created, uuid_count,
                   send_outcome, consumer_vars, medium_vars, instance_vars>>

\* invocation k returns its TaskResponse, or its HTTPException is answered
FinishCall(k) ==
    /\ calls[k].pc \in {"sending", "failed"}
    /\ calls' = [calls EXCEPT ![k].pc = "done"]
    /\ created' = IF calls[k].response.status_code = 201
                  THEN Append(created, calls[k].response.content)
                  ELSE created
    /\ UNCHANGED <<enable_api_key_check, queue, request, response, uuid_count,
                   send_outcome, consumer_vars, medium_vars, instance_vars>>

Begin == \E k \in CallIds : BeginCall(k)

Send == \E k \in CallIds : SendCall(k)

Retry == \E k \in CallIds : TransportRetry(k)

Finish == \E k \in CallIds : FinishCall(k)

\* one HTTP request is handled from the middleware to the response
HandleRequest ==
    /\ request = NoRequest
    /\ uuid_count < MaxTasks
    /\ request' \in Requests
    /\ \E outcome \in SendOutcomes :
           LET r == App(request', enable_api_key_check, uuid_count, outcome)
           IN  /\ response' = r.response
               /\ queue' = Enqueue(queue, r.sent)
               /\ created' = IF r.response.status_code = 201
                             THEN Append(created, r.response.content)
                             ELSE created
               /\ uuid_count' = uuid_count + r.uuids
               /\ send_outcome' = IF r.uuids = 0 THEN NoSend ELSE outcome
    /\ UNCHANGED <<enable_api_key_check, consumer_vars, medium_vars,
                   instance_vars, calls>>

\* the exchange is over: the response has been sent to the caller
CompleteRequest ==
    /\ request # NoRequest
    /\ request' = NoRequest
    /\ response' = NoResponse
    /\ send_outcome' = NoSend
    /\ UNCHANGED <<enable_api_key_check, queue, created, uuid_count,
                   consumer_vars, medium_vars,
                   instance_vars, calls>>

vars == <<consumer_vars, medium_vars, api_vars, instance_vars, calls>>

ConsumerInit ==
    /\ processed_tasks = {}
    /\ pc = "idle"
    /\ event = PyDict(NoItems)
    /\ records = <<>>
    /\ idx = 1
    /\ batch_item_failures = <<>>
    /\ task_data = Unbound
    /\ processing_log = <<>>
    /\ registry_at_start = {}

MediumInit ==
    /\ offered = <<>>
    /\ medium = <<>>
    /\ acked = {}
    /\ dead = {}
    /\ receive_count = [m \in {MessageId(i) : i \in 1..MaxBatch} |-> 0]

ApiInit ==
    /\ enable_api_key_check = FALSE
    /\ queue = <<>>
    /\ request = NoRequest
    /\ response = NoResponse
    /\ created = <<>>
    /\ uuid_count = 0
    /\ send_outcome = NoSend

\* a second consumer process, just started
InstanceInit ==
    /\ other_processed_tasks = {}
    /\ other_processing_log = <<>>

\* no create_task invocation is in progress
CallsInit == calls = [k \in CallIds |-> NoCall]

Init == ConsumerInit /\ MediumInit /\ ApiInit /\ InstanceInit /\ CallsInit

\* the consumer, called with any event
Next ==
    \/ Invoke
    \/ ProcessRecord
    \/ Return
    \/ Release

Spec == Init /\ [][Next]_vars

\* the closed loop of queue medium and consumer, from any entries waiting
LoopInit ==
    /\ ConsumerInit
    /\ ApiInit
    /\ InstanceInit
    /\ CallsInit
    /\ offered \in Batches \ {<<>>}
    /\ medium = offered
    /\ acked = {}
    /\ dead = {}
    /\ receive_count = [m \in {MessageId(i) : i \in 1..MaxBatch} |-> 0]

LoopNext ==
    \/ Deliver
    \/ ProcessRecord
    \/ Return
    \/ Settle

LoopSpec == LoopInit /\ [][LoopNext]_vars

\* the closed loop with a second consumer process that is delivered the entries too
InstancesNext ==
    \/ Deliver
    \/ ProcessRecord
    \/ Return
    \/ Settle
    \/ DeliverOther

InstancesSpec == LoopInit /\ [][InstancesNext]_vars

\* the producer, with request gating off or on
ProducerInit ==
    /\ ConsumerInit
    /\ MediumInit
    /\ InstanceInit
    /\ CallsInit
    /\ enable_api_key_check \in BOOLEAN
    /\ queue = <<>>
    /\ request = NoRequest
    /\ response = NoResponse
    /\ created = <<>>
    /\ uuid_count = 0
    /\ send_outcome = NoSend

ProducerNext ==
    \/ HandleRequest
    \/ CompleteRequest

ProducerSpec == ProducerInit /\ [][ProducerNext]_vars

\* create_task invocations interleaved in any way
ConcurrentNext ==
    \/ Begin
    \/ Send
    \/ Retry
    \/ Finish

ConcurrentSpec == Init /\ [][ConcurrentNext]_vars

----------------------------------------------------------------------------
(* Vocabulary of the claims about the consumer *)

TaskIds == {T1, T2, UNKNOWN}

HasBody(r) == <<"body">> \in DOMAIN r.items

MessageIdOf(r) == r.items[<<"messageId">>]

\* r carries a well-formed task: a JSON object with a task_id
IsTask(r) == HasBody(r) /\ \E id \in TaskIds : r.items[<<"body">>] = PyStr(TaskText(id))

TaskIdOf(r) == CHOOSE id \in TaskIds : r.items[<<"body">>] = PyStr(TaskText(id))

IsMalformed(r) == HasBody(r) /\ r.items[<<"body">>] = PyStr(MalformedText)

IsNonObject(r) == HasBody(r) /\ r.items[<<"body">>] \in {PyStr(x) : x \in NonObjectTexts}

\* r fails whenever it is handled: its body is no text, no JSON or no JSON object
IsPoison(r) ==
    HasBody(r) /\ (IsMalformed(r) \/ IsNonObject(r) \/ r.items[<<"body">>] = None)

HasNoTaskId(r) == HasBody(r) /\ r.items[<<"body">>] = PyStr(NoTaskIdText)

\* the invocation is over: lambda_handler returned or raised
Finished == pc \in {"returned", "raised"}

FailedIds == {batch_item_failures[i] : i \in DOMAIN batch_item_failures}

\* every record is a well-formed task or malformed JSON, the tasks with pairwise
\* distinct ids that were not registered when the batch arrived
MixedBatch ==
    /\ \A i \in DOMAIN records : IsTask(records[i]) \/ IsMalformed(records[i])
    /\ \A i \in DOMAIN records :
           IsTask(records[i]) => TaskIdOf(records[i]) \notin registry_at_start
    /\ \A i, j \in DOMAIN records :
           IsTask(records[i]) /\ IsTask(records[j]) /\ i # j
               => TaskIdOf(records[i]) # TaskIdOf(records[j])

\* every record is a well-formed task, with pairwise distinct ids
DistinctTasks ==
    /\ \A i \in DOMAIN records : IsTask(records[i])
    /\ \A i, j \in DOMAIN records : i # j => TaskIdOf(records[i]) # TaskIdOf(records[j])

BatchTaskIds == {TaskIdOf(records[i]) : i \in {j \in DOMAIN records : IsTask(records[j])}}

----------------------------------------------------------------------------
(* Claims *)

\* C1: whatever the payloads of a batch are, lambda_handler returns a
\* batchItemFailures result and every entry of the batch is handled: no entry's
\* failure aborts the invocation before the entries that follow it.
C1_NoEntryAbortsTheBatch ==
    Finished => (pc = "returned" /\ idx = Len(records) + 1)

\* C2: a batch that mixes well-formed tasks (distinct ids, not yet registered) and
\* malformed-JSON entries in any order returns, registers every well-formed
\* entry's task_id, and reports exactly the messageIds of the malformed entries.
C2_MixedBatch ==
    (Finished /\ MixedBatch) =>
        /\ pc = "returned"
        /\ \A i \in DOMAIN records :
               IsTask(records[i]) => TaskIdOf(records[i]) \in processed_tasks
        /\ FailedIds = {MessageIdOf(records[i]) :
                           i \in {j \in DOMAIN records : IsMalformed(records[j])}}
        /\ Len(batch_item_failures) = Cardinality(FailedIds)

\* a returned batch with a task before and a task after a malformed entry
C2_Witness ==
    /\ pc = "returned" /\ MixedBatch /\ Len(records) = 3
    /\ IsTask(records[1]) /\ IsMalformed(records[2]) /\ IsTask(records[3])

\* C3: handling an entry whose task_id is already registered (a replay, or a
\* duplicate earlier in the same batch) does not grow the registry and does not
\* report the entry: its messageId is not in batchItemFailures.
C3_DuplicateIsSuccess ==
    /\ [][(/\ pc = "loop" /\ idx <= Len(records)
           /\ IsTask(records[idx]) /\ TaskIdOf(records[idx]) \in processed_tasks)
          => (/\ Cardinality(processed_tasks') <= Cardinality(processed_tasks)
              /\ batch_item_failures' = batch_item_failures
              /\ pc' = "loop" /\ idx' = idx + 1)]_vars
    /\ [](\A i \in 1..(idx - 1) :
             (/\ i <= Len(records) /\ IsTask(records[i])
              /\ \/ TaskIdOf(records[i]) \in registry_at_start
                 \/ \E j \in 1..(i - 1) :
                        IsTask(records[j]) /\ TaskIdOf(records[j]) = TaskIdOf(records[i]))
                 => MessageIdOf(records[i]) \notin FailedIds)

\* a replayed task and a duplicate within the batch have both been handled
C3_Witness ==
    /\ pc = "returned" /\ Len(records) = 3
    /\ IsTask(records[1]) /\ TaskIdOf(records[1]) \in registry_at_start
    /\ IsTask(records[2]) /\ TaskIdOf(records[2]) \notin registry_at_start
    /\ IsTask(records[3]) /\ TaskIdOf(records[3]) = TaskIdOf(records[2])

\* C4: in one consumer process the processing step runs at most once per task_id.
C4_ProcessedAtMostOnce ==
    \A i, j \in DOMAIN processing_log : i # j => processing_log[i] # processing_log[j]

\* a task that was processed in an earlier batch has been delivered again
C4_Witness ==
    /\ pc = "returned"
    /\ \E i \in DOMAIN records :
           /\ IsTask(records[i]) /\ TaskIdOf(records[i]) \in registry_at_start
           /\ \E k \in DOMAIN processing_log : processing_log[k] = TaskIdOf(records[i])

\* C5: in the closed loop of medium and consumer, a batch with one poison entry
\* (an entry whose handling fails) gets every other entry processed, acknowledged
\* and delivered once only: no sibling is redelivered or left waiting.
C5_PoisonLeavesSiblingsAlone ==
    (/\ pc = "idle"
     /\ \E i \in DOMAIN offered : receive_count[MessageIdOf(offered[i])] >= 1
     /\ Cardinality({i \in DOMAIN offered : IsPoison(offered[i])}) = 1)
    => \A i \in DOMAIN offered :
           ~IsPoison(offered[i]) =>
               /\ MessageIdOf(offered[i]) \in acked
               /\ receive_count[MessageIdOf(offered[i])] = 1
               /\ DictGet(json_loads(DictGet(offered[i], <<"body">>, PyStr(<<"{", "}">>)).s).value,
                          <<"task_id">>, UNKNOWN) \in processed_tasks

\* C6 as stated: a batch of N well-formed entries with pairwise distinct task_ids
\* yields no failures and grows the registry by exactly N, whatever the registry.
C6_GrowsByN ==
    (Finished /\ DistinctTasks) =>
        /\ pc = "returned" /\ batch_item_failures = <<>>
        /\ Cardinality(processed_tasks) = Cardinality(registry_at_start) + Len(records)

\* C6 amended: such a batch yields no failures and grows the registry by the
\* number of its task_ids that were not registered yet (N when none was).
C6_GrowsByNew ==
    (Finished /\ DistinctTasks) =>
        /\ pc = "returned" /\ batch_item_failures = <<>>
        /\ Cardinality(processed_tasks) =
               Cardinality(registry_at_start) + Cardinality(BatchTaskIds \ registry_at_start)
        /\ (BatchTaskIds \cap registry_at_start = {} =>
               Cardinality(processed_tasks) = Cardinality(registry_at_start) + Len(records))

\* a returned batch of three distinct tasks, none registered before, on a
\* registry that is not empty
C6_Witness ==
    /\ pc = "returned" /\ DistinctTasks /\ Len(records) >= 2
    /\ registry_at_start # {} /\ BatchTaskIds \cap registry_at_start = {}

\* C7: a batch with no entries (an empty Records list, or no Records at all)
\* returns an empty batchItemFailures list and leaves the registry unchanged.
C7_EmptyBatch ==
    (Finished /\ DictGet(event, <<"Records">>, <<>>) = <<>>) =>
        /\ pc = "returned" /\ batch_item_failures = <<>>
        /\ processed_tasks = registry_at_start

\* an event without Records has been handled on a registry that is not empty
C7_Witness ==
    /\ pc = "returned" /\ <<"Records">> \notin DOMAIN event.items
    /\ registry_at_start # {}

\* C8: the registry is empty at process start and only grows: no step removes a
\* task_id, and a task_id enters it only in the step that processes it for the
\* first time.
C8_RegistryGrowsOnly ==
    /\ processed_tasks = {}
    /\ [][/\ processed_tasks \subseteq processed_tasks'
          /\ \A id \in processed_tasks' \ processed_tasks :
                 /\ processing_log' = Append(processing_log, id)
                 /\ \A k \in DOMAIN processing_log : processing_log[k] # id]_vars

\* a batch has both grown the registry and reported a failure
C8_Witness ==
    /\ pc = "returned" /\ batch_item_failures # <<>>
    /\ registry_at_start # {} /\ processed_tasks # registry_at_start

\* C9: an entry whose payload is a JSON object without task_id is handled as the
\* task "unknown": it is not reported as failed and "unknown" is registered.
C9_MissingTaskId ==
    \A i \in 1..(idx - 1) :
        (i <= Len(records) /\ HasNoTaskId(records[i])) =>
            /\ MessageIdOf(records[i]) \notin FailedIds
            /\ UNKNOWN \in processed_tasks

\* an object without task_id has been handled while "unknown" was not registered
C9_Witness ==
    /\ pc = "returned" /\ UNKNOWN \notin registry_at_start
    /\ \E i \in DOMAIN records : HasNoTaskId(records[i])

\* C10: every create_task call answered 201 has enqueued exactly one message, with
\* ordering-group key "tasks" and deduplication key equal to the generated
\* task_id, whose body decodes to the task_id, title, description, priority,
\* due_date, created_at and status "queued" of the record returned.
C10_OneMessagePerCreatedTask ==
    /\ Len(queue) = Len(created)
    /\ \A i \in DOMAIN created :
           /\ i <= Len(queue)
           /\ queue[i].MessageGroupId = PyStr(<<"tasks">>)
           /\ queue[i].MessageDeduplicationId = created[i].items[<<"task_id">>]
           /\ json_loads(queue[i].MessageBody).ok
           /\ json_loads(queue[i].MessageBody).value = created[i]
           /\ created[i].items[<<"status">>] = PyStr(<<"queued">>)
    /\ response.status_code = 201 =>
           /\ created # <<>>
           /\ response.content = created[Len(created)]
           /\ response.content.items[<<"title">>] = TaskCreate(request.body).items[<<"title">>]

\* two tasks have been created, one of them without a due date
C10_Witness ==
    /\ Len(created) = 2 /\ response.status_code = 201
    /\ \E i \in DOMAIN created : created[i].items[<<"due_date">>] = None
    /\ \E i \in DOMAIN created : created[i].items[<<"due_date">>] # None

----------------------------------------------------------------------------
(* Vocabulary of the claims about the producer *)

\* a request has arrived and this step answers it
Handles == request = NoRequest /\ request' # NoRequest

IsObject(body) == body.type = "dict"

MissingOrEmpty(body, k) ==
    IsObject(body) /\ (k \notin DOMAIN body.items \/ body.items[k] = PyStr(<<>>))

LongerThan(body, k, n) ==
    IsObject(body) /\ k \in DOMAIN body.items /\ Len(body.items[k].s) > n

PriorityOutsideEnumeration(body) ==
    IsObject(body) /\ DictGet(body, <<"priority">>, None) \notin Priorities

UnparseableDueDate(body) ==
    /\ IsObject(body)
    /\ DictGet(body, <<"due_date">>, None) # None
    /\ ~fromisoformat_ok(ReplaceZ(body.items[<<"due_date">>].s))

\* the validation failures: a body that is no JSON, a required field missing or
\* empty, a text over its length bound, a priority outside the enumeration, a due
\* date that is no ISO 8601 timestamp
FailsValidation(req) ==
    /\ req.path = "/tasks"
    /\ \/ req.body = InvalidJson
       \/ MissingOrEmpty(req.body, <<"title">>)
       \/ MissingOrEmpty(req.body, <<"description">>)
       \/ LongerThan(req.body, <<"title">>, TITLE_MAX_LENGTH)
       \/ LongerThan(req.body, <<"description">>, DESCRIPTION_MAX_LENGTH)
       \/ PriorityOutsideEnumeration(req.body)
       \/ UnparseableDueDate(req.body)

\* the request gets past the validate_api_key middleware
PassesGate(req) ==
    \/ ~enable_api_key_check
    \/ req.path \in ExemptPaths
    \/ req.api_key = VALID_API_KEY

SubmissionFailed == send_outcome.kind \in {"ClientError", "Exception"}

\* the task_id generated for the request handled last
LastTaskId == uuid4(uuid_count)

\* C12: when send_message raises, a ClientError or any other exception, the
\* request is answered with 500 and no task record: the response carries no
\* task_id, and the id generated for it is in no record returned and no message.
C12_SubmissionErrorIs500 ==
    SubmissionFailed =>
        /\ response.status_code = 500
        /\ <<"task_id">> \notin DOMAIN response.content.items
        /\ DOMAIN response.content.items = {<<"error">>, <<"message">>}
        /\ \A i \in DOMAIN created : created[i].items[<<"task_id">>] # LastTaskId
        /\ \A i \in DOMAIN queue : queue[i].MessageDeduplicationId # LastTaskId

\* send_message raised an error that is no ClientError, after a task was created
C12_Witness ==
    /\ send_outcome.kind = "Exception"
    /\ response.status_code = 500
    /\ Len(created) = 1

\* C13: a dependency-error response does not leak what the queue medium
\* reported: the body answered for a failed submission is the body that any other
\* error code or message of the same kind of error would have been answered with.
C13_GenericDependencyError ==
    SubmissionFailed =>
        \A other \in SendOutcomes :
            other.kind = send_outcome.kind =>
                response.content =
                    create_task(TaskCreate(request.body), LastTaskId, Now, other).response.content

SameFields(a, b) == \A k \in TaskFields : a.items[k] = b.items[k]

\* C14: the task_ids returned by successful create_task calls are pairwise
\* distinct, also for calls with the same title, description, priority and
\* due_date, and no two enqueued messages share a task_id or a deduplication key.
C14_TaskIdsDistinct ==
    /\ \A i, j \in DOMAIN created :
           i # j => created[i].items[<<"task_id">>] # created[j].items[<<"task_id">>]
    /\ \A i, j \in DOMAIN queue :
           i # j =>
               /\ queue[i].MessageDeduplicationId # queue[j].MessageDeduplicationId
               /\ json_loads(queue[i].MessageBody).value.items[<<"task_id">>]
                      # json_loads(queue[j].MessageBody).value.items[<<"task_id">>]

\* two tasks with the same field values have been created and enqueued
C14_Witness ==
    /\ Len(created) = 2 /\ Len(queue) = 2
    /\ SameFields(created[1], created[2])

TextFields == {<<"title">>, <<"description">>}

AllWhitespace(s, from, to) == \A i \in from..to : s[i] \in Whitespace

\* t is s without its leading and trailing whitespace
IsTrimOf(t, s) ==
    /\ t # <<>> => (t[1] \notin Whitespace /\ t[Len(t)] \notin Whitespace)
    /\ \E lead \in 0..Len(s) :
           /\ lead + Len(t) <= Len(s)
           /\ AllWhitespace(s, 1, lead)
           /\ SubSeq(s, lead + 1, lead + Len(t)) = t
           /\ AllWhitespace(s, lead + Len(t) + 1, Len(s))

\* the message enqueued last, decoded
LastMessage == json_loads(queue[Len(queue)].MessageBody).value

\* C15: for every accepted request, the title and the description of the record
\* returned and of the message enqueued are the request's title and description
\* without their leading and trailing whitespace.
C15_StoredTrimmed ==
    response.status_code = 201 =>
        /\ queue # <<>>
        /\ \A k \in TextFields :
               /\ IsTrimOf(response.content.items[k].s, request.body.items[k].s)
               /\ IsTrimOf(LastMessage.items[k].s, request.body.items[k].s)

\* a title with whitespace on both sides has been accepted and stored bare
C15_Witness ==
    /\ response.status_code = 201
    /\ request.body.items[<<"title">>] = PyStr(<<" ", "a", " ">>)
    /\ response.content.items[<<"title">>] = PyStr(<<"a">>)
    /\ LastMessage.items[<<"title">>] = PyStr(<<"a">>)

\* the text is empty once its leading and trailing whitespace is removed
EmptyAfterTrim(body, k) ==
    /\ IsObject(body) /\ k \in DOMAIN body.items
    /\ AllWhitespace(body.items[k].s, 1, Len(body.items[k].s))

\* C16: every task enqueued or returned has a non-empty title and a non-empty
\* description, and a request whose title or description is empty after trimming
\* is answered as a validation failure.
C16_NeverStoredEmpty ==
    /\ \A i \in DOMAIN created : \A k \in TextFields : created[i].items[k] # PyStr(<<>>)
    /\ \A i \in DOMAIN queue :
           \A k \in TextFields : json_loads(queue[i].MessageBody).value.items[k] # PyStr(<<>>)
    /\ (/\ request.path = "/tasks"
        /\ PassesGate(request)
        /\ \E k \in TextFields : EmptyAfterTrim(request.body, k))
       => response.status_code = 400

\* C17: a request whose priority is not low, medium or high enqueues nothing and,
\* past the API-key middleware, is answered 400; every message in the queue and
\* every record returned has a priority among low, medium, high.
C17_PriorityEnumerated ==
    /\ [](/\ \A i \in DOMAIN queue :
                json_loads(queue[i].MessageBody).value.items[<<"priority">>] \in Priorities
          /\ \A i \in DOMAIN created : created[i].items[<<"priority">>] \in Priorities)
    /\ [][(/\ Handles
           /\ request'.path = "/tasks"
           /\ PriorityOutsideEnumeration(request'.body))
          => /\ queue' = queue
             /\ PassesGate(request') => response'.status_code = 400]_vars

\* the priority "urgent" has been rejected while a task is in the queue
C17_Witness ==
    /\ request.path = "/tasks" /\ IsObject(request.body)
    /\ DictGet(request.body, <<"priority">>, None) = PyStr(<<"urgent">>)
    /\ response.status_code = 400
    /\ Len(queue) = 1

\* a request to a path that is not exempt is being answered with gating enabled
Gated == enable_api_key_check /\ request # NoRequest /\ request.path \notin ExemptPaths

MissingKeyResponse ==
    Response(403, ErrorContent(<<"Forbidden">>, <<"Missing API Key. Include x-api-key header.">>))

InvalidKeyResponse == Response(403, ErrorContent(<<"Forbidden">>, <<"Invalid API Key.">>))

\* the request went on to the endpoint: a valid task is created when send_message
\* works, and a rejected body is a validation failure
OnNormalPath ==
    /\ response.status_code \in {201, 400, 500}
    /\ (TaskCreate_ok(request.body) /\ send_outcome.kind = "ok") <=> response.status_code = 201
    /\ ~TaskCreate_ok(request.body) <=> response.status_code = 400

\* C18 as stated: with gating enabled, on a path that is not exempt, no x-api-key
\* header gives 403 "Missing API Key", every header value other than the
\* configured key gives 403 "Invalid API Key", and the configured key lets the
\* request go on.
C18_GateAsStated ==
    Gated =>
        /\ request.api_key = None => response = MissingKeyResponse
        /\ (request.api_key # None /\ request.api_key # VALID_API_KEY)
               => response = InvalidKeyResponse
        /\ request.api_key = VALID_API_KEY => OnNormalPath

\* C18, amended: no header or an empty header value gives 403 "Missing API Key",
\* a non-empty value other than the configured key gives 403 "Invalid API Key",
\* and the configured key lets the request go on.
C18_GateEmptyIsMissing ==
    Gated =>
        /\ request.api_key \in {None, PyStr(<<>>)} => response = MissingKeyResponse
        /\ request.api_key \notin {None, PyStr(<<>>), VALID_API_KEY}
               => response = InvalidKeyResponse
        /\ request.api_key = VALID_API_KEY => OnNormalPath

\* with gating enabled a task was created, and a request with an empty key is
\* answered
C18_Witness ==
    /\ Gated /\ request.api_key = PyStr(<<>>)
    /\ response.status_code = 403
    /\ Len(created) = 1

\* C19: /health is answered 200 with status "healthy" whether gating is enabled
\* or not and whatever API key comes with the request, and the documentation
\* paths are never answered by the API-key middleware.
C19_HealthNeverGated ==
    /\ request.path = "/health" =>
           /\ response.status_code = 200
           /\ response.content.items[<<"status">>] = PyStr(<<"healthy">>)
           /\ <<"timestamp">> \in DOMAIN response.content.items
    /\ request.path \in DocPaths =>
           /\ response.status_code = 200
           /\ response \notin {MissingKeyResponse, InvalidKeyResponse}

\* with gating enabled, /health has been answered 200 to a wrong API key
C19_Witness ==
    /\ enable_api_key_check
    /\ request.path = "/health"
    /\ request.api_key = PyStr(<<"wrong-key">>)
    /\ response.status_code = 200

----------------------------------------------------------------------------
(* The failure list of the consumer *)

\* the entries of the batch whose handling fails, in batch order
FailedEntries == SelectSeq(records, IsPoison)

\* r is processed, or skipped as registered already
Succeeds(r) == IsTask(r) \/ HasNoTaskId(r) \/ ~HasBody(r)

\* C20: the batchItemFailures list that lambda_handler returns holds, in batch
\* order, the messageId of each entry whose handling failed, once, and never a
\* task_id; an entry is absent from it exactly when it was processed or skipped
\* as registered, and the list is empty exactly when no entry failed.
C20_FailureListExact ==
    pc = "returned" =>
        /\ batch_item_failures = [i \in DOMAIN FailedEntries |-> MessageIdOf(FailedEntries[i])]
        /\ \A i \in DOMAIN batch_item_failures : batch_item_failures[i] \notin TaskIds
        /\ \A i \in DOMAIN records :
               MessageIdOf(records[i]) \notin FailedIds <=> Succeeds(records[i])
        /\ batch_item_failures = <<>> <=> \A i \in DOMAIN records : Succeeds(records[i])

\* a batch of a failing entry, a task and another failing entry has returned
C20_Witness ==
    /\ pc = "returned" /\ Len(records) = 3
    /\ IsPoison(records[1]) /\ IsTask(records[2]) /\ IsPoison(records[3])
    /\ Len(batch_item_failures) = 2

----------------------------------------------------------------------------
(* Order of processing within a batch *)

\* the task_id under which r is handled when its handling does not fail
EffectiveId(r) == IF IsTask(r) THEN TaskIdOf(r) ELSE UNKNOWN

\* the first entry of the batch handled under id
FirstOccurrence(id) ==
    CHOOSE i \in DOMAIN records :
        /\ Succeeds(records[i]) /\ EffectiveId(records[i]) = id
        /\ \A k \in 1..(i - 1) : ~(Succeeds(records[k]) /\ EffectiveId(records[k]) = id)

\* the positions of the processing log written by the running invocation
NewInLog == {k \in DOMAIN processing_log : processing_log[k] \notin registry_at_start}

\* C21: the entries of a batch are handled one after another in delivery order:
\* the loop goes from entry i to entry i+1 only when entry i is registered or
\* recorded as failed, nothing of an entry not yet reached is in the registry or
\* the failure list, and task_ids enter the registry in the order of their first
\* occurrence in the batch.
C21_InDeliveryOrder ==
    /\ [](pc \in {"loop", "returned", "raised"} =>
            /\ \A k \in NewInLog :
                   \E i \in 1..(idx - 1) : /\ Succeeds(records[i])
                                           /\ EffectiveId(records[i]) = processing_log[k]
            /\ \A m \in FailedIds :
                   \E i \in 1..(idx - 1) : MessageIdOf(records[i]) = m
            /\ \A a, b \in NewInLog :
                   a < b => FirstOccurrence(processing_log[a])
                                < FirstOccurrence(processing_log[b]))
    /\ [][(pc = "loop" /\ idx' # idx /\ pc' # "idle") =>
              /\ idx' = idx + 1
              /\ \/ /\ Succeeds(records[idx])
                    /\ EffectiveId(records[idx]) \in processed_tasks'
                    /\ batch_item_failures' = batch_item_failures
                 \/ /\ batch_item_failures'
                          = Append(batch_item_failures, MessageIdOf(records[idx]))
                    /\ processed_tasks' = processed_tasks]_vars

\* a batch of two new tasks, "t2" before "t1", has been processed
C21_Witness ==
    /\ pc = "returned" /\ Len(records) >= 2
    /\ IsTask(records[1]) /\ TaskIdOf(records[1]) = T2
    /\ IsTask(records[2]) /\ TaskIdOf(records[2]) = T1
    /\ registry_at_start = {}
    /\ processing_log = <<T2, T1>>

----------------------------------------------------------------------------
(* Two consumer processes *)

Occurrences(log, id) == Cardinality({k \in DOMAIN log : log[k] = id})

\* the entries of batch that a run reaches: those before the first entry that
\* makes lambda_handler raise
Reached(batch) ==
    {i \in DOMAIN batch : \A k \in 1..i : ~IsNonObject(batch[k])}

\* C22: duplicate suppression does not cross consumer processes: an entry
\* delivered to the second process is processed and registered there also when the
\* first process has registered its task_id, and each process processes a task_id
\* once.
C22_NoCrossInstanceSuppression ==
    /\ [](/\ \A id \in processed_tasks : Occurrences(processing_log, id) = 1
          /\ \A id \in other_processed_tasks : Occurrences(other_processing_log, id) = 1)
    /\ [][DeliverOther =>
              \A i \in Reached(offered) :
                  Succeeds(offered[i]) =>
                      /\ EffectiveId(offered[i]) \in other_processed_tasks'
                      /\ Occurrences(other_processing_log', EffectiveId(offered[i])) = 1]_vars

\* both processes have processed the task "t1"
C22_Witness ==
    /\ T1 \in processed_tasks /\ T1 \in other_processed_tasks
    /\ Occurrences(processing_log, T1) = 1
    /\ Occurrences(other_processing_log, T1) = 1

----------------------------------------------------------------------------
(* create_task invocations running side by side *)

\* invocation k handed its message to the medium
Submitted(k) == calls[k].pc \in {"sending", "done"} /\ calls[k].response.status_code = 201

\* the places in the queue of the messages with deduplication key id
MessagesOf(id) == {i \in DOMAIN queue : queue[i].MessageDeduplicationId = id}

\* message m carries the task_id and the fields of invocation k
CarriesOwn(m, k) ==
    /\ json_loads(m.MessageBody).ok
    /\ json_loads(m.MessageBody).value.items[<<"task_id">>] = calls[k].task_id
    /\ \A f \in TaskFields :
           json_loads(m.MessageBody).value.items[f] = calls[k].task.items[f]
    /\ json_loads(m.MessageBody).value = calls[k].response.content

\* C23: create_task invocations that run side by side share no mutable state:
\* in every interleaving each invocation that submits enqueues exactly one message,
\* with its own task_id and its own request's fields, an invocation that has not
\* submitted has none, and when all K have been answered 201 the queue holds K
\* messages.
C23_CallsIndependent ==
    /\ \A k \in CallIds :
           IF Submitted(k)
           THEN /\ Cardinality(MessagesOf(calls[k].task_id)) = 1
                /\ \A i \in MessagesOf(calls[k].task_id) : CarriesOwn(queue[i], k)
           ELSE calls[k].task_id = None \/ MessagesOf(calls[k].task_id) = {}
    /\ Len(queue) = Cardinality({k \in CallIds : Submitted(k)})
    /\ (\A k \in CallIds : calls[k].pc = "done" /\ calls[k].response.status_code = 201)
           => Len(queue) = MaxCalls

\* all invocations were answered 201, with different fields, and the one that
\* began second submitted first
C23_Witness ==
    /\ \A k \in CallIds : calls[k].pc = "done" /\ calls[k].response.status_code = 201
    /\ Len(queue) = MaxCalls
    /\ queue[1].MessageDeduplicationId = uuid4(2)
    /\ \E j, k \in CallIds : calls[j].task # calls[k].task

----------------------------------------------------------------------------
(* The registry after a batch *)

\* the task_ids of the entries of the batch that are not in the failure list
UnfailedTaskIds ==
    {EffectiveId(records[i]) :
        i \in {j \in DOMAIN records : /\ Succeeds(records[j])
                                      /\ MessageIdOf(records[j]) \notin FailedIds}}

\* C25: after any batch the registry is its value before the batch united with
\* the task_ids of the entries that were not reported as failed: a failed entry
\* leaves the registry as it is.
C25_RegistryIsStartPlusUnfailed ==
    Finished => processed_tasks = registry_at_start \cup UnfailedTaskIds

\* C26: a malformed-payload entry is reported as failed by every invocation it is
\* delivered to, whatever the registry and the other entries of its batch: it is
\* never acknowledged, and it waits for redelivery until the medium gives it up.
C26_MalformedFailsEveryDelivery ==
    /\ \A i \in DOMAIN offered :
           IsMalformed(offered[i]) =>
               /\ MessageIdOf(offered[i]) \notin acked
               /\ \/ MessageIdOf(offered[i]) \in MessageIdsOf(medium)
                  \/ MessageIdOf(offered[i]) \in dead
    /\ Finished =>
           \A i \in DOMAIN records :
               IsMalformed(records[i]) =>
                   /\ pc = "returned"
                   /\ MessageIdOf(records[i]) \in FailedIds

\* r carries no task_id: an object without the key, or no body at all
LacksTaskId(r) == HasNoTaskId(r) \/ ~HasBody(r)

\* C27: the entries without a task_id share the registry key "unknown": once
\* "unknown" is registered, by such an entry or by an entry whose task_id is the
\* text "unknown", every later entry without a task_id is skipped and is no
\* failure, whatever its other fields are, and "unknown" is processed once.
C27_UnknownIsShared ==
    /\ [](Occurrences(processing_log, UNKNOWN) <= 1)
    /\ [][(/\ pc = "loop" /\ idx <= Len(records)
           /\ LacksTaskId(records[idx])
           /\ UNKNOWN \in processed_tasks)
          => /\ processed_tasks' = processed_tasks
             /\ processing_log' = processing_log
             /\ batch_item_failures' = batch_item_failures
             /\ idx' = idx + 1]_vars

\* after the task "unknown", an object without task_id and an entry without body
\* have been skipped
C27_Witness ==
    /\ pc = "returned" /\ Len(records) = 3
    /\ IsTask(records[1]) /\ TaskIdOf(records[1]) = UNKNOWN
    /\ HasNoTaskId(records[2]) /\ ~HasBody(records[3])
    /\ registry_at_start = {}
    /\ processed_tasks = {UNKNOWN}
    /\ batch_item_failures = <<>>

\* lambda_handler called once more with the event of the invocation that has just
\* ended, from the registry and the log that invocation left
SecondRun == lambda_handler(event, processed_tasks, processing_log)

\* C28: handling a batch is idempotent: when lambda_handler has handled a batch,
\* from any registry, handling the same batch again leaves the registry and the
\* processing log as the first run left them, and the second run returns the
\* batchItemFailures list the first run returned.
C28_BatchIdempotent ==
    Finished =>
        /\ SecondRun.registry = processed_tasks
        /\ SecondRun.log = processing_log
        /\ SecondRun.raised <=> pc = "raised"
        /\ pc = "returned" => SecondRun.failures = batch_item_failures

\* a first run has registered a task and reported a failure
C28_Witness ==
    /\ pc = "returned"
    /\ batch_item_failures # <<>>
    /\ processed_tasks # registry_at_start
    /\ SecondRun.failures = batch_item_failures

\* this step has enqueued exactly one message, and it is the message of the task
\* the response of the step returns
AcceptedOne ==
    /\ Len(queue') = Len(queue) + 1
    /\ SubSeq(queue', 1, Len(queue)) = queue
    /\ <<"task_id">> \in DOMAIN response'.content.items
    /\ queue'[Len(queue')].MessageDeduplicationId = response'.content.items[<<"task_id">>]

C30_KeyCheckFirst ==
    [][(Handles /\ enable_api_key_check /\ request'.path = "/tasks"
           /\ request'.api_key # VALID_API_KEY) =>
           /\ response' \in {MissingKeyResponse, InvalidKeyResponse}
           /\ <<"task_id">> \notin DOMAIN response'.content.items
           /\ uuid_count' = uuid_count
           /\ send_outcome' = NoSend
           /\ queue' = queue
           /\ created' = created]_vars

\* with gating enabled, a request with a wrong key and a body that fails
\* validation is answered 403, after a task was created
C30_Witness ==
    /\ Gated /\ request.path = "/tasks"
    /\ request.api_key = PyStr(<<"wrong-key">>)
    /\ FailsValidation(request)
    /\ response = InvalidKeyResponse
    /\ send_outcome = NoSend
    /\ Len(queue) = 1 /\ uuid_count = 1

\* C31: an entry that has no body field is not reported as failed: its payload is
\* the empty JSON object, it is handled as the task "unknown" (registered, or
\* skipped when "unknown" is registered already), the invocation does not raise
\* on it, and its messageId is never in batchItemFailures.
C31_NoBodyIsUnknownTask ==
    /\ [](\A i \in 1..(idx - 1) :
            (i <= Len(records) /\ ~HasBody(records[i])) =>
                MessageIdOf(records[i]) \notin FailedIds)
    /\ [][(pc = "loop" /\ idx <= Len(records) /\ ~HasBody(records[idx])) =>
              /\ task_data' = PyDict(NoItems)
              /\ processed_tasks' = processed_tasks \cup {UNKNOWN}
              /\ processing_log' = IF UNKNOWN \in processed_tasks
                                    THEN processing_log
                                    ELSE Append(processing_log, UNKNOWN)
              /\ batch_item_failures' = batch_item_failures
              /\ pc' = "loop" /\ idx' = idx + 1]_vars

\* after a malformed entry that was reported, an entry without body has been
\* registered as "unknown" and not reported
C31_Witness ==
    /\ pc = "returned" /\ Len(records) = 2
    /\ IsMalformed(records[1]) /\ ~HasBody(records[2])
    /\ registry_at_start = {}
    /\ processed_tasks = {UNKNOWN}
    /\ FailedIds = {MessageIdOf(records[1])}

====
